---------------------------- MODULE Spec2Model ----------------------------
(***************************************************************************)
(* A model of pytest_cpp/boost.py (BoostTestFacade, BoostTestFailure) and  *)
(* pytest_cpp/junit_xml.py (parse).                                        *)
(*                                                                         *)
(* Text is a sequence of tokens, so that concatenation, join, split and    *)
(* startswith are computed rather than assumed.  An XML text is the tree   *)
(* it denotes together with the facts the code reads from the raw text     *)
(* (whether it starts with "<FatalError", how many "</FatalError>" it      *)
(* holds, whether it is well formed).  A Python call either returns a      *)
(* value or raises: Ok(v) and Raise(e).                                    *)
(***************************************************************************)
EXTENDS Integers, Sequences, FiniteSets, TLC

(* ------------------------------ bounds -------------------------------- *)
\* children of the root element of a native log
MaxChildren == 2
\* children of the root element of a native log a run is fed
MaxRunChildren == 1
\* testsuite elements of a JUnit document
MaxSuites == 1
\* testcase elements of one testsuite
MaxCases == 2
\* lines of a --list_content=HRF listing
MaxLines == 4

(* ------------------------------ values -------------------------------- *)
None == [kind |-> "None"]
Ok(v) == [exc |-> "none", value |-> v]
Raise(e) == [exc |-> e, value |-> <<>>]

SeqUpTo(S, n) == UNION {[1..k -> S] : k \in 0..n}

\* str.startswith on token text
StartsWith(text, prefix) ==
    /\ Len(text) >= Len(prefix)
    /\ SubSeq(text, 1, Len(prefix)) = prefix

\* whether the tokens of part occur contiguously in text
Contains(text, part) ==
    \E i \in 1..(Len(text) - Len(part) + 1) :
        SubSeq(text, i, i + Len(part) - 1) = part

\* str.splitlines: the lines between the "\n" tokens (no empty last line)
RECURSIVE SplitLinesFrom(_, _)
SplitLinesFrom(text, cur) ==
    IF text = <<>> THEN (IF cur = <<>> THEN <<>> ELSE <<cur>>)
    ELSE IF Head(text) = "\n" THEN <<cur>> \o SplitLinesFrom(Tail(text), <<>>)
    ELSE SplitLinesFrom(Tail(text), Append(cur, Head(text)))

splitlines(text) == SplitLinesFrom(text, <<>>)

\* BoostTestFailure.__init__
BoostTestFailure(filename, linenum, contents) ==
    [type |-> "BoostTestFailure", filename |-> filename, linenum |-> linenum,
     lines |-> splitlines(contents)]

(* ------------------------- native log dialect ------------------------- *)
Absent == "<absent>"
\* int() of the line attributes that occur
IntOf == [s \in {"5", "7"} |-> IF s = "5" THEN 5 ELSE 7]

ElemText == [t \in {"Exception", "Error", "FatalError", "Message"} |->
               CASE t = "Exception" -> "bad"
                 [] t = "Error" -> "check failed"
                 [] t = "FatalError" -> "boom"
                 [] OTHER -> "info"]

\* an element with its file and line attributes, or without them
Elems ==
    {[tag |-> t, file |-> f[1], line |-> f[2], text |-> ElemText[t]] :
        t \in DOMAIN ElemText, f \in {<<"a.cpp", "5">>, <<Absent, Absent>>}}
    \cup {[tag |-> "Error", file |-> "b.cpp", line |-> "7",
           text |-> ElemText["Error"]]}

FatalFragments == {e \in Elems : e.tag = "FatalError"}

\* a log text: an optional leading <FatalError> fragment, then a root document
\* (well formed with its children, empty text, or malformed text)
NativeLogs ==
    {[kind |-> "text", frag |-> fr, root |-> "doc", children |-> ch] :
        fr \in {<<>>} \cup {<<e>> : e \in FatalFragments},
        ch \in SeqUpTo(Elems, MaxChildren)}
    \cup
    {[kind |-> "text", frag |-> fr, root |-> r, children |-> <<>>] :
        fr \in {<<>>} \cup {<<e>> : e \in FatalFragments},
        r \in {"empty", "malformed"}}

\* the logs a run is fed
RunLogs == {l \in NativeLogs : Len(l.children) <= MaxRunChildren}

\* Element.findall(tag): the direct children with that tag, in document order
findall(children, tag) == SelectSeq(children, LAMBDA e : e.tag = tag)

\* the number of parts log.split('</FatalError>') yields
SplitParts(log) == 1 + Len(log.frag) + Len(findall(log.children, "FatalError"))

\* elem.attrib[key]
HasAttrib(e, key) == IF key = "file" THEN e.file # Absent ELSE e.line # Absent

RECURSIVE ElemRecords(_)
ElemRecords(parsed) ==
    IF parsed = <<>> THEN Ok(<<>>)
    ELSE LET e == Head(parsed).elem
             rest == ElemRecords(Tail(parsed))
         IN  IF ~HasAttrib(e, "file") \/ ~HasAttrib(e, "line")
             THEN Raise("KeyError")
             ELSE IF rest.exc # "none" THEN rest
             ELSE Ok(<<BoostTestFailure(e.file, IntOf[e.line],
                                        Head(parsed).text)>> \o rest.value)

Plain(e) == [elem |-> e, text |-> <<e.text>>]
Wrap(children) == [i \in 1..Len(children) |-> Plain(children[i])]

\* BoostTestFacade._parse_log
parse_log(log) ==
    IF log = None THEN Raise("AttributeError")
    ELSE IF log.frag # <<>> /\ SplitParts(log) # 2
         THEN Raise("ValueError")
    ELSE IF log.root # "doc" THEN Raise("ParseError")
    ELSE LET fatal == [i \in 1..Len(log.frag) |->
                          [elem |-> log.frag[i],
                           text |-> <<"Fatal Error: ", log.frag[i].text>>]]
         IN  ElemRecords(fatal
                         \o Wrap(findall(log.children, "Exception"))
                         \o Wrap(findall(log.children, "Error"))
                         \o Wrap(findall(log.children, "FatalError")))

(* --------------------------- JUnit dialect ---------------------------- *)
Cases ==
    {[name |-> "t1", status |-> "run", failures |-> <<>>],
     [name |-> "t1", status |-> "run", failures |-> <<"m1", "m2">>],
     [name |-> "t1", status |-> Absent, failures |-> <<>>],
     [name |-> "t2", status |-> "notrun", failures |-> <<>>]}

\* the i-th testsuite of a document is named SuiteNames[i]
SuiteNames == <<"S", "T", "U">>

SuiteSeqs ==
    UNION {{[i \in 1..k |-> [name |-> SuiteNames[i], cases |-> cs[i]]] :
               cs \in [1..k -> SeqUpTo(Cases, MaxCases)]} : k \in 0..MaxSuites}

JUnitLogs ==
    {[kind |-> "text", root |-> "doc", suites |-> s] : s \in SuiteSeqs}
    \cup {[kind |-> "text", root |-> r, suites |-> <<>>] :
        r \in {"empty", "malformed"}}

RECURSIVE ParseCases(_, _)
ParseCases(suiteName, cases) ==
    IF cases = <<>> THEN Ok(<<>>)
    ELSE LET c == Head(cases)
             rest == ParseCases(suiteName, Tail(cases))
         IN  IF c.status = Absent THEN Raise("KeyError")
             ELSE IF rest.exc # "none" THEN rest
             ELSE Ok(<<[type |-> "tuple",
                        name |-> <<suiteName>> \o <<".">> \o <<c.name>>,
                        failures |-> c.failures,
                        skipped |-> (c.status = "notrun")]>> \o rest.value)

RECURSIVE ParseSuites(_)
ParseSuites(suites) ==
    IF suites = <<>> THEN Ok(<<>>)
    ELSE LET first == ParseCases(Head(suites).name, Head(suites).cases)
             rest == ParseSuites(Tail(suites))
         IN  IF first.exc # "none" THEN first
             ELSE IF rest.exc # "none" THEN rest
             ELSE Ok(first.value \o rest.value)

\* junit_xml.parse
parse(doc) ==
    IF doc.root # "doc" THEN Raise("ParseError") ELSE ParseSuites(doc.suites)

(* ------------------------------- state -------------------------------- *)
VARIABLES
    pc,                 \* position of the current call
    op,                 \* the entry point called
    test_id,            \* the test_id argument
    probe,              \* how the --help invocation of this call ended
    strategy,           \* the run function dispatched to
    fs,                 \* the temporary files that exist, with their contents
    child,              \* what the child process of the run did
    results,            \* the local variable `results`
    pending,            \* the return value or exception a try block leaves with
    outcome,            \* what the call gave its caller
    spawned,            \* child processes spawned by the current call
    cleanupFailed,      \* whether the finally clause itself raised
    lines,              \* the listing output, line by line
    idx,                \* the next line of the listing loop
    prev_indent,
    tests,
    test_names_branch

runVars == <<pc, op, test_id, probe, strategy, fs, child, results, pending,
             outcome, spawned, cleanupFailed>>
listVars == <<lines, idx, prev_indent, tests, test_names_branch>>
vars == <<pc, op, test_id, probe, strategy, fs, child, results, pending,
          outcome, spawned, cleanupFailed, lines, idx, prev_indent, tests,
          test_names_branch>>

(* ------------------------------ outcomes ------------------------------ *)
Passed == [kind |-> "Passed"]
Failed(records) == [kind |-> "Failed", records |-> records]
Skipped == [kind |-> "Skipped"]
Raised(e) == [kind |-> "Raised", exc |-> e]
Value(v) == [kind |-> "Value", value |-> v]
NoOutcome == [kind |-> "none"]

(* -------------------------- capability probe -------------------------- *)
\* subprocess.check_output([executable, '--help'], ...): the spawn fails, the
\* child exits with a non-zero code, or its output is captured.  outfmt: the
\* output holds '--output_format'; logfmt: it holds no 'log_format', holds it, or
\* holds a line matching _JUNIT_LOG_FORMAT.
ProbeResults ==
    {[kind |-> "OSError"], [kind |-> "CalledProcessError"]}
    \cup {[kind |-> "output", outfmt |-> o, logfmt |-> l] :
             o \in BOOLEAN, l \in {"none", "plain", "junit"}}

\* mutant of ProbeSpawns: the probe is answered from a cache
ProbeSpawns_cached(p) == 0

\* whether the probe spawned a child process
ProbeSpawns(p) == IF p.kind = "OSError" THEN 0 ELSE 1

\* BoostTestFacade._JUNIT_LOG_FORMAT.search(output)
JUnitAdvertised(p) == p.logfmt = "junit"

\* BoostTestFacade.is_test_suite
is_test_suite(p) ==
    IF p.kind \in {"CalledProcessError", "OSError"} THEN Value(FALSE)
    ELSE Value(p.outfmt /\ p.logfmt # "none")

\* BoostTestFacade.Facade.__init__
Facade(list_tests_fn, run_test_fn) ==
    [list_test_fn |-> list_tests_fn, run_test_fn |-> run_test_fn]

\* BoostTestFacade.create_facade
create_facade(p) ==
    IF p.kind = "output"
    THEN Value(Facade("_list_tests_fallback",
                      IF JUnitAdvertised(p) THEN "_run_tests"
                      ELSE "_run_tests_fallback"))
    ELSE IF p.kind = "CalledProcessError"
    THEN Value(Facade("_list_tests_fallback", "_run_tests_fallback"))
    ELSE Raised("OSError")

\* BoostTestFacade.run_test: the strategy, or the exception that leaves it
run_test_dispatch(p) ==
    IF p.kind = "output"
    THEN Value(IF JUnitAdvertised(p) THEN "_run_tests"
               ELSE "_run_tests_fallback")
    ELSE IF p.kind = "CalledProcessError" THEN Value("_run_tests_fallback")
    ELSE Raised("OSError")

(* ------------------------------ run paths ----------------------------- *)
executable == <<"./test_exe">>
TestIds == {<<"S", ".", "t1">>, <<"S", ".", "t2">>}

temp_dir == "tmp/d"
log_xml == "tmp/d/log.xml"
report_xml == "tmp/d/report.xml"
junit_log_xml == "tmp/f_log.xml"
Dir == [kind |-> "dir"]
EmptyFs == [x \in {} |-> Dir]

ExitCodes == {0, 200, 201, 1, -11}
Str == [n \in ExitCodes |->
          CASE n = 0 -> "0" [] n = 200 -> "200" [] n = 201 -> "201"
            [] n = 1 -> "1" [] OTHER -> "-11"]

Reports ==
    {[kind |-> "text", text |-> t] :
        t \in {<<"Boost.Test framework internal error: ", "x">>,
               <<"Test setup error: ", "y">>,
               <<"<TestResult>", "</TestResult>">>,
               <<>>}}

\* the files under a directory (os.path.join(temp_dir, ...))
Under(d) == IF d = temp_dir THEN {temp_dir, log_xml, report_xml} ELSE {d}

Restrict(f, S) == [x \in S |-> f[x]]
WriteFile(f, name, content) ==
    [x \in DOMAIN f \cup {name} |-> IF x = name THEN content ELSE f[x]]

\* mutant of rmtree: only the directory entry goes, as os.rmdir would do
rmtree_dir_only(f, d) == Restrict(f, DOMAIN f \ {d})

\* shutil.rmtree(temp_dir)
rmtree(f, d) == Restrict(f, DOMAIN f \ Under(d))

\* os.remove(log_xml)
os_remove(f, name) == Restrict(f, DOMAIN f \ {name})

\* read_file of _run_tests_fallback
read_file(f, name) == IF name \in DOMAIN f THEN f[name] ELSE None

\* mutant of AcceptableExit: 201 is taken for a catastrophic exit code
AcceptableExit_without_201(rc) == rc \in {0, 200}

\* p.returncode not in (0, 200, 201), negated
AcceptableExit(rc) == rc \in {0, 200, 201}

\* str.format of a file's text (None prints as 'None')
Format(x) ==
    IF x = None THEN <<"None">>
    ELSE IF "text" \in DOMAIN x THEN x.text ELSE <<"<log text>">>

InternalErrorMsg(tid, rc, stdout, log, report) ==
    <<"Internal Error: calling ">> \o executable \o <<" for test ">> \o tid
    \o <<" failed (returncode=", Str[rc], "):", "\n", "output:">> \o stdout
    \o <<"\n", "log:">> \o Format(log) \o <<"\n", "report:">> \o Format(report)

SentinelReport(report) ==
    /\ report # None
    /\ \/ StartsWith(report.text, <<"Boost.Test framework internal error: ">>)
       \/ StartsWith(report.text, <<"Test setup error: ">>)

\* _run_tests_fallback, from the two read_file calls to the end of the try block
run_tests_fallback_body(f, tid, rc, stdout) ==
    LET log == read_file(f, log_xml)
        report == read_file(f, report_xml)
    IN  IF ~AcceptableExit(rc)
        THEN Failed(<<BoostTestFailure("<no source file>", 0,
                        InternalErrorMsg(tid, rc, stdout, log, report))>>)
        ELSE IF SentinelReport(report)
        THEN Failed(<<BoostTestFailure("unknown location", 0, report.text)>>)
        ELSE LET res == parse_log(log)
             IN  IF res.exc # "none" THEN Raised(res.exc)
                 ELSE IF res.value # <<>> THEN Failed(res.value)
                 ELSE Passed

\* junit_xml.get_failures(log_xml), taken to be junit_xml.parse of the file
get_failures(f, name) == parse(f[name])

\* BoostTestFailure(x): __init__ needs filename, linenum and contents
BoostTestFailure1(x) == Raise("TypeError")

\* the first tuple named tid, 0 when there is none
FirstMatch(res, tid) ==
    IF \E i \in 1..Len(res) : res[i].name = tid
    THEN CHOOSE i \in 1..Len(res) :
            /\ res[i].name = tid
            /\ \A j \in 1..(i - 1) : res[j].name # tid
    ELSE 0

\* _run_tests, the loop over results and what follows it
run_tests_scan(res, tid) ==
    LET i == FirstMatch(res, tid)
    IN  IF i # 0
        THEN IF res[i].failures # <<>>
             THEN LET made == BoostTestFailure1(res[i].failures[1])
                  IN  IF made.exc # "none" THEN Raised(made.exc)
                      ELSE Failed([k \in 1..Len(res[i].failures) |-> made.value])
             ELSE IF res[i].skipped THEN Skipped
             ELSE Passed
        ELSE IF res # <<>> THEN Failed(res)
        ELSE Passed

(* ------------------------------ actions ------------------------------- *)
NoChild == [kind |-> "none"]
NoProbe == "none"

IdleRun ==
    /\ pc = "idle" /\ op = "none" /\ test_id = <<>> /\ probe = NoProbe
    /\ strategy = "none" /\ fs = EmptyFs /\ child = NoChild
    /\ results = Ok(<<>>) /\ pending = NoOutcome /\ outcome = NoOutcome
    /\ spawned = 0 /\ cleanupFailed = FALSE

IdleList ==
    /\ lines = <<>> /\ idx = 1 /\ prev_indent = 0 /\ tests = <<>>
    /\ test_names_branch = <<>>

Init == IdleRun /\ IdleList

\* BoostTestFacade.is_test_suite(executable)
IsTestSuite(p) ==
    /\ pc = "idle"
    /\ op' = "is_test_suite" /\ probe' = p.kind
    /\ spawned' = spawned + ProbeSpawns(p)
    /\ outcome' = is_test_suite(p)
    /\ pc' = "done"
    /\ UNCHANGED <<test_id, strategy, fs, child, results, pending,
                   cleanupFailed>>
    /\ UNCHANGED listVars

\* BoostTestFacade.create_facade(executable)
CreateFacade(p) ==
    /\ pc = "idle"
    /\ op' = "create_facade" /\ probe' = p.kind
    /\ spawned' = spawned + ProbeSpawns(p)
    /\ outcome' = create_facade(p)
    /\ pc' = "done"
    /\ UNCHANGED <<test_id, strategy, fs, child, results, pending,
                   cleanupFailed>>
    /\ UNCHANGED listVars

\* where a run function starts
Entry(fn) == IF fn = "_run_tests" THEN "mkstemp" ELSE "mkdtemp"

\* BoostTestFacade.run_test(executable, test_id): the probe and the dispatch
RunTest(p, tid) ==
    /\ pc = "idle"
    /\ op' = "run_test" /\ probe' = p.kind /\ test_id' = tid
    /\ spawned' = spawned + ProbeSpawns(p)
    /\ LET d == run_test_dispatch(p)
       IN  IF d.kind = "Raised"
           THEN /\ outcome' = d /\ pc' = "done" /\ UNCHANGED strategy
           ELSE /\ strategy' = d.value /\ pc' = Entry(d.value)
                /\ UNCHANGED outcome
    /\ UNCHANGED <<fs, child, results, pending, cleanupFailed>>
    /\ UNCHANGED listVars

\* Facade.run_test(executable, test_id) of a facade create_facade returned
FacadeRunTest(p, tid) ==
    /\ pc = "idle"
    /\ create_facade(p).kind = "Value"
    /\ op' = "Facade.run_test" /\ test_id' = tid
    /\ strategy' = create_facade(p).value.run_test_fn
    /\ pc' = Entry(create_facade(p).value.run_test_fn)
    /\ UNCHANGED <<probe, fs, child, results, pending, outcome, spawned,
                   cleanupFailed>>
    /\ UNCHANGED listVars

\* temp_dir = tempfile.mkdtemp()
Mkdtemp ==
    /\ pc = "mkdtemp"
    /\ fs' = WriteFile(fs, temp_dir, Dir)
    /\ pc' = "fallback_popen"
    /\ UNCHANGED <<op, test_id, probe, strategy, child, results, pending,
                   outcome, spawned, cleanupFailed>>
    /\ UNCHANGED listVars

\* subprocess.Popen raises OSError: the try block is left for the finally clause
FallbackPopenOSError ==
    /\ pc = "fallback_popen"
    /\ pending' = Raised("OSError")
    /\ pc' = "fallback_finally"
    /\ UNCHANGED <<op, test_id, probe, strategy, fs, child, results, outcome,
                   spawned, cleanupFailed>>
    /\ UNCHANGED listVars

\* the child runs to its end; it wrote the log and the report, or did not
FallbackCommunicate(rc, log, report) ==
    /\ pc = "fallback_popen"
    /\ spawned' = spawned + 1
    /\ child' = [kind |-> "native", returncode |-> rc, stdout |-> <<"stdout">>,
                 log |-> log, report |-> report]
    /\ fs' = LET withLog == IF log = None THEN fs
                            ELSE WriteFile(fs, log_xml, log)
             IN  IF report = None THEN withLog
                 ELSE WriteFile(withLog, report_xml, report)
    /\ pc' = "fallback_body"
    /\ UNCHANGED <<op, test_id, probe, strategy, results, pending, outcome,
                   cleanupFailed>>
    /\ UNCHANGED listVars

\* log = read_file(log_xml) ... if results: return results
FallbackBody ==
    /\ pc = "fallback_body"
    /\ pending' = run_tests_fallback_body(fs, test_id, child.returncode,
                                          child.stdout)
    /\ pc' = "fallback_finally"
    /\ UNCHANGED <<op, test_id, probe, strategy, fs, child, results, outcome,
                   spawned, cleanupFailed>>
    /\ UNCHANGED listVars

\* finally: shutil.rmtree(temp_dir); then the call returns or raises
FallbackFinally ==
    /\ pc = "fallback_finally"
    /\ cleanupFailed' = (temp_dir \notin DOMAIN fs)
    /\ fs' = rmtree(fs, temp_dir)
    /\ outcome' = IF temp_dir \notin DOMAIN fs THEN Raised("OSError")
                  ELSE pending
    /\ pc' = "done"
    /\ UNCHANGED <<op, test_id, probe, strategy, child, results, pending,
                   spawned>>
    /\ UNCHANGED listVars

\* _, log_xml = tempfile.mkstemp(suffix='log.xml'): an empty file
Mkstemp ==
    /\ pc = "mkstemp"
    /\ fs' = WriteFile(fs, junit_log_xml,
                       [kind |-> "text", root |-> "empty", suites |-> <<>>])
    /\ pc' = "junit_popen"
    /\ UNCHANGED <<op, test_id, probe, strategy, child, results, pending,
                   outcome, spawned, cleanupFailed>>
    /\ UNCHANGED listVars

JUnitPopenOSError ==
    /\ pc = "junit_popen"
    /\ pending' = Raised("OSError")
    /\ pc' = "junit_finally"
    /\ UNCHANGED <<op, test_id, probe, strategy, fs, child, results, outcome,
                   spawned, cleanupFailed>>
    /\ UNCHANGED listVars

\* the child runs to its end and leaves the log sink with the text it wrote
JUnitCommunicate(log) ==
    /\ pc = "junit_popen"
    /\ spawned' = spawned + 1
    /\ child' = [kind |-> "junit", log |-> log]
    /\ fs' = WriteFile(fs, junit_log_xml, log)
    /\ pc' = "junit_get_failures"
    /\ UNCHANGED <<op, test_id, probe, strategy, results, pending, outcome,
                   cleanupFailed>>
    /\ UNCHANGED listVars

\* results = junit_xml.get_failures(log_xml): junit_xml.py defines no
\* get_failures, and the attribute lookup raises
JUnitGetFailuresAttributeError ==
    /\ pc = "junit_get_failures"
    /\ pending' = Raised("AttributeError")
    /\ pc' = "junit_finally"
    /\ UNCHANGED <<op, test_id, probe, strategy, fs, child, results, outcome,
                   spawned, cleanupFailed>>
    /\ UNCHANGED listVars

\* results = junit_xml.get_failures(log_xml), with get_failures the parser of
\* the JUnit dialect; then the loop over results
JUnitBody ==
    /\ pc = "junit_get_failures"
    /\ results' = get_failures(fs, junit_log_xml)
    /\ pending' = IF results'.exc # "none" THEN Raised(results'.exc)
                  ELSE run_tests_scan(results'.value, test_id)
    /\ pc' = "junit_finally"
    /\ UNCHANGED <<op, test_id, probe, strategy, fs, child, outcome, spawned,
                   cleanupFailed>>
    /\ UNCHANGED listVars

\* finally: os.remove(log_xml); then the call returns or raises
JUnitFinally ==
    /\ pc = "junit_finally"
    /\ cleanupFailed' = (junit_log_xml \notin DOMAIN fs)
    /\ fs' = os_remove(fs, junit_log_xml)
    /\ outcome' = IF junit_log_xml \notin DOMAIN fs THEN Raised("OSError")
                  ELSE pending
    /\ pc' = "done"
    /\ UNCHANGED <<op, test_id, probe, strategy, child, results, pending,
                   spawned>>
    /\ UNCHANGED listVars

\* control is back at the caller; the next call starts afresh
Return ==
    /\ pc = "done"
    /\ pc' = "idle" /\ op' = "none" /\ test_id' = <<>> /\ probe' = NoProbe
    /\ strategy' = "none" /\ fs' = EmptyFs /\ child' = NoChild
    /\ results' = Ok(<<>>) /\ pending' = NoOutcome /\ outcome' = NoOutcome
    /\ spawned' = 0 /\ cleanupFailed' = FALSE
    /\ UNCHANGED listVars

Next ==
    \/ pc = "idle" /\ \E p \in ProbeResults : IsTestSuite(p)
    \/ pc = "idle" /\ \E p \in ProbeResults : CreateFacade(p)
    \/ pc = "idle" /\ \E p \in ProbeResults, tid \in TestIds : RunTest(p, tid)
    \/ pc = "idle" /\ \E p \in ProbeResults, tid \in TestIds :
                         FacadeRunTest(p, tid)
    \/ Mkdtemp
    \/ FallbackPopenOSError
    \/ pc = "fallback_popen"
          /\ \E rc \in ExitCodes, log \in RunLogs \cup {None},
                report \in Reports \cup {None} :
                    FallbackCommunicate(rc, log, report)
    \/ FallbackBody
    \/ FallbackFinally
    \/ Mkstemp
    \/ JUnitPopenOSError
    \/ pc = "junit_popen" /\ \E log \in JUnitLogs : JUnitCommunicate(log)
    \/ JUnitGetFailuresAttributeError
    \/ JUnitBody
    \/ JUnitFinally
    \/ Return

Spec == Init /\ [][Next]_vars

(* ----------------------- the parsers on their own --------------------- *)
ParseInputs ==
    {[kind |-> "native", log |-> l] : l \in NativeLogs \cup {None}}
    \cup {[kind |-> "junit", log |-> l] : l \in JUnitLogs}

InitParse ==
    /\ pc = "parse_input" /\ op = "parse" /\ child \in ParseInputs
    /\ test_id = <<>> /\ probe = NoProbe /\ strategy = "none" /\ fs = EmptyFs
    /\ results = Ok(<<>>) /\ pending = NoOutcome /\ outcome = NoOutcome
    /\ spawned = 0 /\ cleanupFailed = FALSE
    /\ IdleList

\* BoostTestFacade._parse_log(log)
ParseLog ==
    /\ pc = "parse_input" /\ child.kind = "native"
    /\ results' = parse_log(child.log)
    /\ pc' = "parsed"
    /\ UNCHANGED <<op, test_id, probe, strategy, fs, child, pending, outcome,
                   spawned, cleanupFailed>>
    /\ UNCHANGED listVars

\* junit_xml.parse(filename)
ParseJUnit ==
    /\ pc = "parse_input" /\ child.kind = "junit"
    /\ results' = parse(child.log)
    /\ pc' = "parsed"
    /\ UNCHANGED <<op, test_id, probe, strategy, fs, child, pending, outcome,
                   spawned, cleanupFailed>>
    /\ UNCHANGED listVars

NextParse == ParseLog \/ ParseJUnit

SpecParse == InitParse /\ [][NextParse]_vars

(* ------------------------- hierarchical listing ----------------------- *)
\* the name on the i-th line of the listing
LineNames == <<"A", "B", "C", "D", "E", "F">>
Indents == {0, 2, 4}

\* a line: ws leading whitespace characters, a name (empty on a blank line)
\* and whether a '*' follows the name
ListingLine(i) ==
    {[ws |-> w, name |-> <<LineNames[i]>>, star |-> TRUE] : w \in Indents}
    \cup {[ws |-> 2, name |-> <<LineNames[i]>>, star |-> FALSE],
          [ws |-> 0, name |-> <<>>, star |-> FALSE]}

RECURSIVE ListingsOfLen(_)
ListingsOfLen(k) ==
    IF k = 0 THEN {<<>>}
    ELSE {Append(l, x) : l \in ListingsOfLen(k - 1), x \in ListingLine(k)}

Listings == UNION {ListingsOfLen(k) : k \in 0..MaxLines}

\* BoostTestFacade._TEST_CASE_PATTERN.match(line)
Matches(line) == line.name # <<>> /\ line.star

TestNode(name, indent) == [name |-> name, indent |-> indent]

\* '/'.join
RECURSIVE Join(_)
Join(names) ==
    IF names = <<>> THEN <<>>
    ELSE IF Len(names) = 1 THEN names[1]
    ELSE names[1] \o <<"/">> \o Join(Tail(names))

\* get_test_name of _list_tests
get_test_name(branch) == Join([i \in 1..Len(branch) |-> branch[i].name])

\* mutant of ClosesBranch: equal indentation does not close the sibling
ClosesBranch_strict(indent, prev) == indent < prev

\* indent <= prev_indent
ClosesBranch(indent, prev) == indent <= prev

\* while test_names_branch and test_names_branch[-1].indent >= indent: pop()
RECURSIVE PopWhile(_, _)
PopWhile(branch, indent) ==
    IF branch # <<>> /\ branch[Len(branch)].indent >= indent
    THEN PopWhile(SubSeq(branch, 1, Len(branch) - 1), indent)
    ELSE branch

InitList ==
    /\ pc = "list_loop" /\ op = "_list_tests"
    /\ lines \in Listings
    /\ idx = 1 /\ prev_indent = 0 /\ tests = <<>> /\ test_names_branch = <<>>
    /\ test_id = <<>> /\ probe = NoProbe /\ strategy = "none" /\ fs = EmptyFs
    /\ child = NoChild /\ results = Ok(<<>>) /\ pending = NoOutcome
    /\ outcome = NoOutcome /\ spawned = 1 /\ cleanupFailed = FALSE

\* a line the pattern does not match: continue
ListSkip ==
    /\ pc = "list_loop" /\ idx <= Len(lines) /\ ~Matches(lines[idx])
    /\ idx' = idx + 1
    /\ UNCHANGED <<lines, prev_indent, tests, test_names_branch>>
    /\ UNCHANGED runVars

\* one pass of the loop body for a matching line
ListLine ==
    /\ pc = "list_loop" /\ idx <= Len(lines) /\ Matches(lines[idx])
    /\ LET indent == lines[idx].ws
           test_node == TestNode(lines[idx].name, indent)
           full_test == get_test_name(test_names_branch)
       IN  IF ClosesBranch(indent, prev_indent)
           THEN /\ tests' = IF full_test # <<>> THEN Append(tests, full_test)
                            ELSE tests
                /\ test_names_branch' =
                       Append(PopWhile(test_names_branch, indent), test_node)
           ELSE /\ tests' = tests
                /\ test_names_branch' = Append(test_names_branch, test_node)
    /\ prev_indent' = lines[idx].ws
    /\ idx' = idx + 1
    /\ UNCHANGED lines
    /\ UNCHANGED runVars

\* after the loop: the remaining branch, and return tests
ListReturn ==
    /\ pc = "list_loop" /\ idx > Len(lines)
    /\ tests' = IF test_names_branch # <<>>
                THEN Append(tests, get_test_name(test_names_branch))
                ELSE tests
    /\ pc' = "list_done"
    /\ UNCHANGED <<lines, idx, prev_indent, test_names_branch>>
    /\ UNCHANGED <<op, test_id, probe, strategy, fs, child, results, pending,
                   outcome, spawned, cleanupFailed>>

NextList == ListSkip \/ ListLine \/ ListReturn

SpecList == InitList /\ [][NextList]_vars

(* ------------------------------- claims ------------------------------- *)
RunOps == {"run_test", "Facade.run_test"}

\* C1: when control is back at the caller of a run (Passed, Failed, the skip
\* signal or an exception), no temporary directory or file of the call exists
\* any more, and the finally clause itself did not raise.
C1_NoResidualTemp ==
    (pc = "done" /\ op \in RunOps) =>
        (DOMAIN fs = {} /\ cleanupFailed = FALSE)

\* a native run that wrote both files and ended in a parser error
C1_Witness ==
    /\ pc = "done" /\ op \in RunOps /\ strategy = "_run_tests_fallback"
    /\ child # NoChild /\ child.log # None /\ child.report # None
    /\ outcome = Raised("ParseError")
    /\ DOMAIN fs = {}

\* further exit paths of C1, each reached with nothing left behind: the skip
\* signal, a failed spawn on the JUnit path, the early return on a sentinel
C1_WitnessSkip == pc = "done" /\ outcome = Skipped /\ DOMAIN fs = {}
C1_WitnessSpawnError ==
    /\ pc = "done" /\ op = "Facade.run_test" /\ outcome = Raised("OSError")
    /\ strategy = "_run_tests" /\ DOMAIN fs = {}
C1_WitnessEarlyReturn ==
    /\ pc = "done" /\ outcome.kind = "Failed" /\ child.kind = "native"
    /\ child.returncode = 200 /\ SentinelReport(child.report)
    /\ DOMAIN fs = {}

\* C2: a run that returns gives Passed, or Failed with a non-empty list of
\* FailureRecords only; when the parser yields no records the result is Passed.
C2_FailedNeverEmpty ==
    /\ (pc = "done" /\ op \in RunOps /\ outcome.kind = "Failed") =>
          /\ outcome.records # <<>>
          /\ \A i \in 1..Len(outcome.records) :
                outcome.records[i].type = "BoostTestFailure"
    /\ (pc = "done" /\ op \in RunOps /\ child.kind = "native"
          /\ child.returncode \in {0, 200, 201}
          /\ ~SentinelReport(child.report)
          /\ parse_log(child.log) = Ok(<<>>)) => outcome = Passed

\* what of C2 the code does: the same on the native path alone
C2_NativePathOnly ==
    (strategy = "_run_tests_fallback") => C2_FailedNeverEmpty

\* C3: on the native path an exit code other than 0, 200 and 201 gives exactly
\* one record at "<no source file>", line 0, whose message holds the exit code
\* and the test id, whatever the log and the report are; for 0, 200 and 201
\* no such record is made.
C3_BadExitCode ==
    (pc = "done" /\ op \in RunOps /\ child.kind = "native") =>
        IF child.returncode \notin {0, 200, 201}
        THEN /\ outcome.kind = "Failed"
             /\ Len(outcome.records) = 1
             /\ outcome.records[1].type = "BoostTestFailure"
             /\ outcome.records[1].filename = "<no source file>"
             /\ outcome.records[1].linenum = 0
             /\ \E i \in 1..Len(outcome.records[1].lines) :
                   Contains(outcome.records[1].lines[i],
                            <<Str[child.returncode]>>)
             /\ \E i \in 1..Len(outcome.records[1].lines) :
                   Contains(outcome.records[1].lines[i], test_id)
        ELSE outcome.kind = "Failed" =>
                \A i \in 1..Len(outcome.records) :
                    outcome.records[i].filename # "<no source file>"

\* an executable that exits with code 1 and writes no report file
C3_Witness ==
    /\ pc = "done" /\ op \in RunOps /\ child.kind = "native"
    /\ child.returncode = 1 /\ child.report = None /\ child.log # None
    /\ outcome.kind = "Failed" /\ Len(outcome.records) = 1

\* the message texts the native-log dialect prescribes for a log
TextsOf(children, tag) ==
    LET sel == SelectSeq(children, LAMBDA e : e.tag = tag)
    IN  [i \in 1..Len(sel) |-> <<<<sel[i].text>>>>]

\* C4: for a log made of a well-formed FatalError fragment and a well-formed
\* root document, _parse_log returns the fragment's record first, its message
\* prefixed by "Fatal Error: ", then one record per Exception, per Error and
\* per FatalError child of the root, in that order (also for a fragment without
\* file and line attributes and for a root with FatalError children).
C4_FatalFragmentThenRoot ==
    (pc = "parsed" /\ child.kind = "native" /\ child.log # None
       /\ child.log.frag # <<>> /\ child.log.root = "doc"
       /\ \A i \in 1..Len(child.log.children) :
             child.log.children[i].file # Absent) =>
        /\ results.exc = "none"
        /\ [i \in 1..Len(results.value) |-> results.value[i].lines]
             = <<<<<<"Fatal Error: ", child.log.frag[1].text>>>>>>
               \o TextsOf(child.log.children, "Exception")
               \o TextsOf(child.log.children, "Error")
               \o TextsOf(child.log.children, "FatalError")

\* what of C4 the code does: the same, for a fragment that carries file and
\* line attributes and a root document without FatalError children
C4_AttributedFragmentNoFatalChild ==
    (pc = "parsed" /\ child.kind = "native" /\ child.log # None
       /\ child.log.frag # <<>> /\ child.log.root = "doc"
       /\ child.log.frag[1].file # Absent
       /\ \A i \in 1..Len(child.log.children) :
             /\ child.log.children[i].file # Absent
             /\ child.log.children[i].tag # "FatalError") =>
        /\ results.exc = "none"
        /\ [i \in 1..Len(results.value) |-> results.value[i].lines]
             = <<<<<<"Fatal Error: ", child.log.frag[1].text>>>>>>
               \o TextsOf(child.log.children, "Exception")
               \o TextsOf(child.log.children, "Error")

\* the part of C4 about a root document that holds FatalError children, with
\* file and line attributes on every element
C4_RootWithFatalErrorChild ==
    (pc = "parsed" /\ child.kind = "native" /\ child.log # None
       /\ child.log.frag # <<>> /\ child.log.root = "doc"
       /\ child.log.frag[1].file # Absent
       /\ \A i \in 1..Len(child.log.children) :
             child.log.children[i].file # Absent) =>
        results.exc = "none"

\* the tuples the JUnit dialect prescribes for a document
CaseTuples(suite) ==
    [i \in 1..Len(suite.cases) |->
        [type |-> "tuple",
         name |-> <<suite.name, ".", suite.cases[i].name>>,
         failures |-> suite.cases[i].failures,
         skipped |-> (suite.cases[i].status = "notrun")]]

RECURSIVE AllTuples(_)
AllTuples(suites) ==
    IF suites = <<>> THEN <<>>
    ELSE CaseTuples(Head(suites)) \o AllTuples(Tail(suites))

\* what of C5 the code does: the same, for documents whose testcases all
\* carry a status attribute
C5_WithStatusEverywhere ==
    (pc = "parsed" /\ child.kind = "junit" /\ child.log.root = "doc"
       /\ \A i \in 1..Len(child.log.suites) :
             \A j \in 1..Len(child.log.suites[i].cases) :
                child.log.suites[i].cases[j].status # Absent) =>
        results = Ok(AllTuples(child.log.suites))

\* C5: the JUnit parser emits one tuple (suite.case, failure messages, skipped)
\* per testcase in document order, skipped exactly for status "notrun"; a
\* testcase without a status attribute gives (name, [], false), not an error.
C5_OneTuplePerTestcase ==
    (pc = "parsed" /\ child.kind = "junit" /\ child.log.root = "doc") =>
        results = Ok(AllTuples(child.log.suites))

AllStatusesPresent(doc) ==
    \A i \in 1..Len(doc.suites) :
        \A j \in 1..Len(doc.suites[i].cases) :
            doc.suites[i].cases[j].status # Absent

\* C6: on the JUnit path the first tuple named test_id decides: failure
\* messages give Failed with one FailureRecord per message, else skipped gives
\* the skip signal, else Passed; without a match a non-empty parse is returned
\* as FailureRecords and an empty parse gives Passed.
C6_JUnitOutcome ==
    (pc = "done" /\ op \in RunOps /\ child.kind = "junit"
       /\ child.log.root = "doc" /\ AllStatusesPresent(child.log)) =>
        LET tuples == AllTuples(child.log.suites)
            hits == SelectSeq(tuples, LAMBDA t : t.name = test_id)
        IN  IF hits # <<>>
            THEN IF hits[1].failures # <<>>
                 THEN /\ outcome.kind = "Failed"
                      /\ Len(outcome.records) = Len(hits[1].failures)
                      /\ \A i \in 1..Len(outcome.records) :
                            /\ outcome.records[i].type = "BoostTestFailure"
                            /\ outcome.records[i].lines =
                                   <<<<hits[1].failures[i]>>>>
                 ELSE IF hits[1].skipped THEN outcome = Skipped
                 ELSE outcome = Passed
            ELSE IF tuples # <<>>
                 THEN /\ outcome.kind = "Failed"
                      /\ Len(outcome.records) = Len(tuples)
                      /\ \A i \in 1..Len(outcome.records) :
                            outcome.records[i].type = "BoostTestFailure"
                 ELSE outcome = Passed

\* the matching lines of a listing, and the leaves of their indentation tree
MatchingLines(ls) == SelectSeq(ls, LAMBDA l : l.star /\ l.name # <<>>)

ParentOf(m, i) ==
    IF \E j \in 1..(i - 1) : m[j].ws < m[i].ws
    THEN CHOOSE j \in 1..(i - 1) :
            /\ m[j].ws < m[i].ws
            /\ \A k \in (j + 1)..(i - 1) : m[k].ws >= m[i].ws
    ELSE 0

RECURSIVE PathOf(_, _)
PathOf(m, i) ==
    IF ParentOf(m, i) = 0 THEN m[i].name
    ELSE PathOf(m, ParentOf(m, i)) \o <<"/">> \o m[i].name

IsLeaf(m, i) == i = Len(m) \/ m[i + 1].ws <= m[i].ws

LeafPaths(ls) ==
    LET m == MatchingLines(ls)
        leaves == SelectSeq([i \in 1..Len(m) |-> i], LAMBDA i : IsLeaf(m, i))
    IN  [k \in 1..Len(leaves) |-> PathOf(m, leaves[k])]

ExampleListing ==
    <<[ws |-> 0, name |-> <<"A">>, star |-> TRUE],
      [ws |-> 2, name |-> <<"B">>, star |-> TRUE],
      [ws |-> 2, name |-> <<"C">>, star |-> TRUE],
      [ws |-> 0, name |-> <<"D">>, star |-> TRUE]>>

\* C7: _list_tests returns the slash-joined root-to-leaf paths of the leaves of
\* the indentation tree of the matching lines, in order (A*, B*, C*, D* with
\* indents 0, 2, 2, 0 give A/B, A/C, D), and throughout the loop the indents of
\* the stack increase strictly from bottom to top.
C7_LeafPaths ==
    /\ \A i \in 1..Len(test_names_branch) : \A j \in 1..Len(test_names_branch) :
          i < j => test_names_branch[i].indent < test_names_branch[j].indent
    /\ pc = "list_done" => tests = LeafPaths(lines)
    /\ (pc = "list_done" /\ lines = ExampleListing) =>
          tests = <<<<"A", "/", "B">>, <<"A", "/", "C">>, <<"D">>>>

C7_Witness ==
    /\ pc = "list_done" /\ lines = ExampleListing
    /\ tests = <<<<"A", "/", "B">>, <<"A", "/", "C">>, <<"D">>>>

\* C8: a failed --help invocation (spawn failure or non-zero exit) is never
\* raised to the caller: is_test_suite answers false, create_facade and
\* run_test go on with the fallback listing and the native run.
C8_ProbeFailureNotSurfaced ==
    (probe \in {"OSError", "CalledProcessError"}) =>
        /\ outcome.kind # "Raised"
        /\ (pc = "done" /\ op = "is_test_suite") => outcome = Value(FALSE)
        /\ (pc = "done" /\ op = "create_facade") =>
              outcome = Value(Facade("_list_tests_fallback",
                                     "_run_tests_fallback"))
        /\ op = "run_test" => strategy = "_run_tests_fallback"

\* C9: a native run whose child exits with 0, 200 or 201, whose report has no
\* sentinel prefix and whose log file is missing or empty returns Passed.
C9_MissingLogIsPassed ==
    (pc = "done" /\ op \in RunOps /\ child.kind = "native"
       /\ child.returncode \in {0, 200, 201} /\ ~SentinelReport(child.report)
       /\ (child.log = None
           \/ (child.log.frag = <<>> /\ child.log.root = "empty"))) =>
        outcome = Passed

\* C10 as stated: a call of BoostTestFacade.run_test that returns has spawned
\* exactly one child process in total.
C10_ExactlyOneChild ==
    (pc = "done" /\ op = "run_test" /\ outcome.kind \in {"Passed", "Failed"}) =>
        spawned = 1

\* C10 as amended: a call of BoostTestFacade.run_test that returns Passed or
\* Failed, or signals the skip, has spawned exactly two child processes (the
\* --help probe, then the test run); the run function it dispatched to, called
\* on its own through a Facade, has spawned exactly one.
C10_ProbeThenOneRun ==
    (pc = "done" /\ outcome.kind \in {"Passed", "Failed", "Skipped"}) =>
        /\ op = "run_test" => spawned = 2
        /\ op = "Facade.run_test" => spawned = 1

C10_Witness ==
    /\ pc = "done" /\ op = "run_test" /\ strategy = "_run_tests_fallback"
    /\ probe = "output" /\ outcome = Passed /\ spawned = 2

=============================================================================
